---------------------------- MODULE Spec2Model ----------------------------
(***************************************************************************)
(* A model of color_widgets::Swatch (src/src/swatch.cpp): the grid         *)
(* geometry (rowcols, actualColorSize, indexRect, indexAt), the drop       *)
(* resolution (Private::dropEvent, clearDrop) and the selection and        *)
(* keyboard state machine (setSelected, keyPressEvent, removeSelected,     *)
(* paletteModified and the listeners installed by the constructor).        *)
(*                                                                         *)
(* The ColorPalette class is not part of the sources at hand: its          *)
(* operations (count, colorAt, eraseColor, setColors, setColumns) and the  *)
(* notifications they emit are modelled from the specification.            *)
(*                                                                         *)
(* Pixel coordinates are integers (QPoint).  Cell sizes are the            *)
(* single-precision quotients the code computes; they are kept as exact    *)
(* dyadic rationals m / 2^e, so that every comparison and truncation the   *)
(* code makes on them is computed here without rounding of its own.        *)
(***************************************************************************)
EXTENDS Integers, Sequences, FiniteSets, TLC

(***************************************************************************)
(* Bounds of the model.                                                    *)
(***************************************************************************)
\* longest palette of the selection and drop machines
MaxCount == 3
\* longest palette of the layout machine (colours are irrelevant there)
MaxLayoutCount == 10
\* largest value given to setForcedColumns / setForcedRows
MaxForced == 3
\* largest column hint given to the palette
MaxHint == 2
\* colour conversion: hue, saturation and lightness in steps of 1 / HslSteps
HslSteps == 12

(***************************************************************************)
(* Program constants.                                                      *)
(***************************************************************************)
\* color_size(16, 16) in Private::Private
DefaultColorSize == 16
\* the largest value of the type int the layout is stored in
IntMax == 2147483647
IntMin == (-IntMax) - 1

\* widths and heights the host gives the widget (resizeEvent), in pixels
Widths == {0, 8, 16, 40}
Heights == {0, 8, 40}
\* nominal cell widths given to setColorSize
ColorSizes == {8, DefaultColorSize}
\* colours held by palettes; 0 is QColor(0, 0, 0, 0), the default emptyColor
PaletteColors == {0, 1}
\* QColor(): what the palette answers for an index it does not hold
InvalidColor == -1

VARIABLES
  colors,          \* palette: the sequence of its colours
  columnsHint,     \* palette.columns()
  selected,        \* Private::selected
  forced_rows,     \* Private::forced_rows
  forced_columns,  \* Private::forced_columns
  readonly,        \* Private::readonly
  emptyColor,      \* Private::emptyColor
  margin,          \* Private::margin
  color_size,      \* Private::color_size.width()
  width,           \* owner->width()
  height,          \* owner->height()
  drop_index,      \* Private::drop_index
  drop_overwrite,  \* Private::drop_overwrite
  drop_color,      \* Private::drop_color
  event,           \* the pointer position of the drag the host is delivering
  fault,           \* the process was ended by a trap (integer division by zero)
  last,            \* history: the last operation, its input, result and effects
  hsl              \* the arguments of the colour conversion being called

vars == << colors, columnsHint, selected, forced_rows, forced_columns, readonly,
           emptyColor, margin, color_size, width, height, drop_index,
           drop_overwrite, drop_color, event, fault, last, hsl >>

\* the drop state and the drag being delivered
dropVars == << drop_index, drop_overwrite, drop_color, event >>

\* no colour conversion is being called
HslNone == [h |-> 0, s |-> 0, l |-> 0, up |-> FALSE]

(***************************************************************************)
(* Arithmetic of the C++ types.                                            *)
(***************************************************************************)
Min(a, b) == IF a < b THEN a ELSE b
Max(a, b) == IF a > b THEN a ELSE b
Abs(a) == IF a < 0 THEN -a ELSE a

\* qBound(min, val, max) of QtGlobal
qBound(lo, v, hi) == Max(lo, Min(hi, v))

\* a % b of int, b # 0: the remainder has the sign of a
ModC(a, b) == IF a < 0 THEN -((-a) % Abs(b)) ELSE a % Abs(b)

\* a / b of int, b # 0: the quotient is truncated towards zero
DivC(a, b) ==
  LET q == Abs(a) \div Abs(b)
  IN  IF (a < 0) = (b < 0) THEN q ELSE -q

Pow2(n) == 2 ^ n

\* the exponent e with 2^23 <= (a / b) * 2^e, the scale of a float's 24 bits
RECURSIVE FloatExp(_, _, _)
FloatExp(a, b, e) ==
  IF a * Pow2(e) >= b * Pow2(23) THEN e ELSE FloatExp(a, b, e + 1)

\* float(a) / b for 0 <= a, 0 < b: the quotient rounded to the nearest float
\* (ties to even), as the dyadic rational m / 2^e
Float32Quotient(a, b) ==
  IF a = 0 THEN [m |-> 0, e |-> 0]
  ELSE LET e == FloatExp(a, b, 0)
           n == a * Pow2(e)
           q == n \div b
           r == n % b
           m == IF 2 * r > b \/ (2 * r = b /\ q % 2 = 1) THEN q + 1 ELSE q
       IN  [m |-> m, e |-> e]

\* the quotients of the numerators (counts, widths, heights) and divisors
\* (columns, rows) that occur, computed once
Float32Numerators == 0..41
Float32Divisors == 1..(MaxLayoutCount + 1)
Float32Table ==
  [a \in Float32Numerators |-> [b \in Float32Divisors |-> Float32Quotient(a, b)]]
Float32Div(a, b) == Float32Table[a][b]

\* int(std::ceil(f)) of a float f = m / 2^e
CeilF(f) == (f.m + Pow2(f.e) - 1) \div Pow2(f.e)

\* What undefined behaviour can produce: the int a conversion of an infinite
\* or NaN floating value yields (INT_MIN on x86, saturated or 0 elsewhere),
\* and whether an integer division by zero traps.
UB == [toInt : {IntMin, 0, IntMax}, trap : BOOLEAN]
UBNone == [toInt |-> 0, trap |-> TRUE]

(***************************************************************************)
(* QSize.                                                                  *)
(***************************************************************************)
\* QSize(): the invalid size
QSizeNull == [w |-> -1, h |-> -1]
QSizeIsValid(s) == s.w >= 0 /\ s.h >= 0
QSizeIsEmpty(s) == s.w < 1 \/ s.h < 1

(***************************************************************************)
(* The palette collaborator.                                               *)
(***************************************************************************)
\* palette.count()
Count(cs) == Len(cs)
InRange(i, cs) == 0 <= i /\ i < Len(cs)
\* palette.colorAt(i)
PaletteColorAt(cs, i) == IF InRange(i, cs) THEN cs[i + 1] ELSE InvalidColor
\* the colours left by palette.eraseColor(i)
Erased(cs, i) ==
  IF InRange(i, cs)
  THEN [k \in 1..(Len(cs) - 1) |-> IF k <= i THEN cs[k] ELSE cs[k + 1]]
  ELSE cs

(***************************************************************************)
(* Grid geometry.                                                          *)
(***************************************************************************)
\* rowcols() with the row count rounded down instead of up
rowcolsFloor(ub) ==
  LET count == Count(colors)
  IN  IF count = 0 THEN QSizeNull
      ELSE IF forced_rows # 0
      THEN [w |-> count \div forced_rows, h |-> forced_rows]
      ELSE LET columns ==
                 IF forced_columns # 0 THEN forced_columns
                 ELSE IF columnsHint = 0
                      THEN Min(count, width \div color_size)
                      ELSE columnsHint
           IN  [w |-> columns,
                h |-> IF columns = 0 THEN ub.toInt ELSE count \div columns]

\* Private::rowcols(); ub is what the conversion of an infinite quotient gives
rowcols(ub) ==
  LET count == Count(colors)
  IN  IF count = 0 THEN QSizeNull
      ELSE IF forced_rows # 0
      THEN [w |-> CeilF(Float32Div(count, forced_rows)), h |-> forced_rows]
      ELSE LET columns ==
                 IF forced_columns # 0 THEN forced_columns
                 ELSE IF columnsHint = 0
                      THEN Min(count, width \div color_size)
                      ELSE columnsHint
           IN  [w |-> columns,
                h |-> IF columns = 0 THEN ub.toInt
                      ELSE CeilF(Float32Div(count, columns))]


\* Private::actualColorSize(rowcols): the float quotients width / columns and
\* height / rows (a zero divisor gives an infinite or NaN value: "inf")
actualColorSize(rc) ==
  [w |-> IF rc.w > 0 THEN Float32Div(width, rc.w) ELSE [m |-> 0, e |-> -1],
   h |-> IF rc.h > 0 THEN Float32Div(height, rc.h) ELSE [m |-> 0, e |-> -1]]

\* QRectF(): the null rectangle.  A rectangle is kept as the numerators of
\* x, width over 2^ex and of y, height over 2^ey.
QRectFNull ==
  [kind |-> "rect", xn |-> 0, wn |-> 0, ex |-> 0, yn |-> 0, hn |-> 0, ey |-> 0]
\* the rectangle computed from an infinite cell size: no defined value
QRectFUndef ==
  [kind |-> "undef", xn |-> 0, wn |-> 0, ex |-> 0, yn |-> 0, hn |-> 0, ey |-> 0]
\* QRectF::isValid()
QRectFIsValid(r) == r.kind = "rect" /\ r.wn > 0 /\ r.hn > 0
\* QRectF::isEmpty()
QRectFIsEmpty(r) == r.kind = "rect" /\ (r.wn <= 0 \/ r.hn <= 0)

\* Private::indexRect(index, rowcols, color_size), rowcols.w > 0
indexRect3(index, rc, cs) ==
  IF index = -1 THEN QRectFNull
  ELSE [kind |-> "rect",
        xn |-> ModC(index, rc.w) * cs.w.m + margin * Pow2(cs.w.e),
        wn |-> cs.w.m - margin * 2 * Pow2(cs.w.e),
        ex |-> cs.w.e,
        yn |-> DivC(index, rc.w) * cs.h.m + margin * Pow2(cs.h.e),
        hn |-> cs.h.m - margin * 2 * Pow2(cs.h.e),
        ey |-> cs.h.e]

\* Private::indexRect(index): [rect, fault]; with zero columns in a layout
\* that passes isValid(), index % columns divides by zero
indexRect(index, ub) ==
  LET rc == rowcols(ub)
  IN  IF index = -1 \/ ~QSizeIsValid(rc)
      THEN [rect |-> QRectFNull, fault |-> FALSE]
      ELSE IF rc.w = 0 \/ rc.h = 0
      THEN [rect |-> QRectFUndef, fault |-> (rc.w = 0 /\ ub.trap)]
      ELSE [rect |-> indexRect3(index, rc, actualColorSize(rc)), fault |-> FALSE]

\* int(x / f) for an int x and a cell size f = m / 2^e: the double quotient
\* truncated towards zero; a zero cell size makes the quotient infinite or
\* NaN, whose conversion to int is undefined
IntOfQuotient(x, f, ub) ==
  IF f.m = 0 THEN ub.toInt
  ELSE IF x < 0 THEN -(((-x) * Pow2(f.e)) \div f.m)
  ELSE (x * Pow2(f.e)) \div f.m

\* indexAt with the row multiplied by the row count instead of the column count
indexAtRowsForColumns(pt, ub) ==
  LET rc == rowcols(ub)
  IN  IF QSizeIsEmpty(rc) THEN -1
      ELSE LET cs == actualColorSize(rc)
               px == qBound(0, IntOfQuotient(pt[1], cs.w, ub), rc.w - 1)
               py == qBound(0, IntOfQuotient(pt[2], cs.h, ub), rc.h - 1)
               index == py * rc.h + px
           IN  IF index >= Count(colors) THEN -1 ELSE index

\* Swatch::indexAt(pt)
indexAt(pt, ub) ==
  LET rc == rowcols(ub)
  IN  IF QSizeIsEmpty(rc) THEN -1
      ELSE LET cs == actualColorSize(rc)
               px == qBound(0, IntOfQuotient(pt[1], cs.w, ub), rc.w - 1)
               py == qBound(0, IntOfQuotient(pt[2], cs.h, ub), rc.h - 1)
               index == py * rc.w + px
           IN  IF index >= Count(colors) THEN -1 ELSE index

\* QRectF::center().toPoint(): each coordinate rounded as qRound does
CenterPoint(r) ==
  << (2 * r.xn + r.wn + Pow2(r.ex)) \div Pow2(r.ex + 1),
     (2 * r.yn + r.hn + Pow2(r.ey)) \div Pow2(r.ey + 1) >>

(***************************************************************************)
(* Effects of a handler: the palette and selection it leaves, the signals  *)
(* and repaint requests it emits, the calls it makes to the palette (name, *)
(* index, count at the time of the call), the number of times it forwards  *)
(* the event to QWidget, and whether it trapped.                           *)
(***************************************************************************)
Effects0 ==
  [colors |-> colors, selected |-> selected, emits |-> << >>, calls |-> {},
   fwd |-> 0, fault |-> FALSE]

Emit(E, sig) == [E EXCEPT !.emits = Append(@, sig)]
Call(E, fn, i) == [E EXCEPT !.calls = @ \cup {<< fn, i, Count(E.colors) >>}]

\* setSelected that requests the repaint whether or not the value changes
setSelectedAlwaysUpdates(E, sel) ==
  LET s == IF sel < 0 \/ sel >= Count(E.colors) THEN -1 ELSE sel
  IN  IF s # E.selected
      THEN LET E1 == Emit([E EXCEPT !.selected = s], "selectedChanged")
               E2 == IF s # -1
                     THEN Emit(Call(E1, "colorAt", s), "colorSelected")
                     ELSE E1
           IN  Emit(E2, "update")
      ELSE Emit(E, "update")

\* Swatch::setSelected(selected)
setSelected(E, sel) ==
  LET s == IF sel < 0 \/ sel >= Count(E.colors) THEN -1 ELSE sel
  IN  IF s # E.selected
      THEN LET E1 == Emit([E EXCEPT !.selected = s], "selectedChanged")
               E2 == IF s # -1
                     THEN Emit(Call(E1, "colorAt", s), "colorSelected")
                     ELSE E1
           IN  Emit(E2, "update")
      ELSE E

\* Swatch::clearSelection()
clearSelection(E) == setSelected(E, -1)

\* Swatch::paletteModified(), size_policy = Hint
paletteModified(E) ==
  Emit(IF E.selected >= Count(E.colors) THEN clearSelection(E) ELSE E, "update")

\* the listener of ColorPalette::colorRemoved installed by Swatch::Swatch
onColorRemoved(E, index) ==
  IF index = E.selected THEN clearSelection(E) ELSE E

\* the listener of ColorPalette::colorChanged installed by Swatch::Swatch
onColorChanged(E, index) ==
  IF index = E.selected
  THEN Emit(Call(E, "colorAt", index), "colorSelected")
  ELSE E

\* palette.eraseColor(i), called by the swatch or by anyone holding the
\* palette: out of range it does nothing; otherwise it removes the entry and
\* notifies colorRemoved(i), then colorsUpdated (connected to update())
eraseColor(E, i) ==
  IF ~InRange(i, E.colors) THEN E
  ELSE Emit(onColorRemoved([E EXCEPT !.colors = Erased(E.colors, i)], i),
            "update")

\* palette.setColors(cs): replaces the colours and notifies colorsChanged
\* (connected to paletteModified), then colorsUpdated (connected to update())
setColors(E, cs) ==
  Emit(paletteModified([E EXCEPT !.colors = cs]), "update")

\* the state a handler leaves, and its record in the history
Commit(E, op, arg, res) ==
  /\ colors' = E.colors
  /\ selected' = E.selected
  /\ fault' = E.fault
  /\ last' = [op |-> op, arg |-> arg, res |-> res, emits |-> E.emits,
              calls |-> E.calls, fwd |-> E.fwd]
  /\ UNCHANGED hsl

\* the builds' outcomes of undefined behaviour that the state can exercise:
\* rowcols() divides by zero auto columns (and so may indexRect, where the
\* trap matters); indexAt divides by a zero cell size
UBChoices ==
  IF Count(colors) = 0 THEN {UBNone}
  ELSE IF forced_rows = 0 /\ forced_columns = 0 /\ columnsHint = 0
          /\ width < color_size
  THEN UB
  ELSE IF width = 0 \/ height = 0
  THEN {u \in UB : u.trap}
  ELSE {UBNone}

(***************************************************************************)
(* Operations on the geometry inputs.                                      *)
(***************************************************************************)
\* Swatch::setForcedColumns(forcedColumns)
setForcedColumns(n) ==
  /\ ~fault
  /\ LET fc == IF n <= 0 THEN 0 ELSE n
     IN  IF fc # forced_columns
         THEN /\ forced_columns' = fc
              /\ forced_rows' = 0
              /\ Commit(Emit(Emit(Effects0, "forcedColumnsChanged"),
                             "forcedRowsChanged"),
                        "setForcedColumns", n, << forced_columns, forced_rows >>)
         ELSE /\ UNCHANGED << forced_columns, forced_rows >>
              /\ Commit(Effects0, "setForcedColumns", n,
                        << forced_columns, forced_rows >>)
  /\ UNCHANGED << columnsHint, readonly, emptyColor, margin, color_size, width,
                  height, dropVars >>

\* setForcedRows that leaves forced_columns as it is
setForcedRowsKeepsColumns(n) ==
  /\ ~fault
  /\ forced_rows' = (IF n <= 0 THEN 0 ELSE n)
  /\ Commit(Emit(Effects0, "forcedRowsChanged"), "setForcedRows", n,
            << forced_columns, forced_rows >>)
  /\ UNCHANGED << columnsHint, forced_columns, readonly, emptyColor, margin,
                  color_size, width, height, dropVars >>

\* Swatch::setForcedRows(forcedRows)
setForcedRows(n) ==
  /\ ~fault
  /\ LET fr == IF n <= 0 THEN 0 ELSE n
     IN  IF fr # forced_rows
         THEN /\ forced_columns' = 0
              /\ forced_rows' = fr
              /\ Commit(Emit(Emit(Effects0, "forcedColumnsChanged"),
                             "forcedRowsChanged"),
                        "setForcedRows", n, << forced_columns, forced_rows >>)
         ELSE /\ UNCHANGED << forced_columns, forced_rows >>
              /\ Commit(Effects0, "setForcedRows", n,
                        << forced_columns, forced_rows >>)
  /\ UNCHANGED << columnsHint, readonly, emptyColor, margin, color_size, width,
                  height, dropVars >>

\* Swatch::setColorSize(colorSize)
setColorSize(s) ==
  /\ ~fault
  /\ color_size' = s
  /\ Commit(IF s # color_size THEN Emit(Effects0, "colorSizeChanged") ELSE Effects0,
            "setColorSize", s, 0)
  /\ UNCHANGED << columnsHint, forced_rows, forced_columns, readonly, emptyColor,
                  margin, width, height, dropVars >>

\* the host resizes the widget: owner->width() and owner->height() change
resizeEvent(w, h) ==
  /\ ~fault
  /\ << w, h >> # << width, height >>
  /\ width' = w
  /\ height' = h
  /\ Commit(Emit(Effects0, "update"), "resizeEvent", << w, h >>, 0)
  /\ UNCHANGED << columnsHint, forced_rows, forced_columns, readonly, emptyColor,
                  margin, color_size, dropVars >>

\* palette.setColumns(n) by a holder of the palette: columnsChanged is
\* connected to update()
PaletteSetColumns(n) ==
  /\ ~fault
  /\ n # columnsHint
  /\ columnsHint' = n
  /\ Commit(Emit(Effects0, "update"), "setColumns", n, 0)
  /\ UNCHANGED << forced_rows, forced_columns, readonly, emptyColor, margin,
                  color_size, width, height, dropVars >>

\* palette.setColors(cs) by a holder of the palette (also a truncation)
PaletteSetColors(cs) ==
  /\ ~fault
  /\ cs # colors
  /\ Commit(setColors(Effects0, cs), "setColors", cs, 0)
  /\ UNCHANGED << columnsHint, forced_rows, forced_columns, readonly, emptyColor,
                  margin, color_size, width, height, dropVars >>

\* a call of Private::rowcols() (by sizeHint, paintEvent, ...): its result
rowcolsCall ==
  /\ ~fault
  /\ \E ub \in UBChoices : Commit(Effects0, "rowcols", 0, rowcols(ub))
  /\ UNCHANGED << columnsHint, forced_rows, forced_columns, readonly, emptyColor,
                  margin, color_size, width, height, dropVars >>

(***************************************************************************)
(* The state after Swatch::Swatch.                                         *)
(***************************************************************************)
Init ==
  /\ colors = << >>
  /\ columnsHint = 0
  /\ selected = -1
  /\ forced_rows = 0
  /\ forced_columns = 0
  /\ readonly = FALSE
  /\ emptyColor = 0
  /\ margin = 0
  /\ color_size = DefaultColorSize
  /\ width = 40
  /\ height = 40
  /\ drop_index = -1
  /\ drop_overwrite = FALSE
  /\ drop_color = InvalidColor
  /\ event = << 0, 0 >>
  /\ fault = FALSE
  /\ hsl = HslNone
  /\ last = [op |-> "Swatch", arg |-> 0, res |-> 0, emits |-> << >>,
             calls |-> {}, fwd |-> 0]

(***************************************************************************)
(* The layout machine: the inputs of rowcols() change, rowcols() is        *)
(* called.  Palettes differ in length only.                                *)
(***************************************************************************)
LayoutPalettes == {[k \in 1..n |-> 1] : n \in 0..MaxLayoutCount}

LayoutNext ==
  \/ \E n \in -1..MaxForced : setForcedColumns(n)
  \/ \E n \in -1..MaxForced : setForcedRows(n)
  \/ \E s \in ColorSizes : setColorSize(s)
  \/ \E w \in Widths : resizeEvent(w, height)
  \/ \E n \in 0..MaxHint : PaletteSetColumns(n)
  \/ \E cs \in LayoutPalettes : PaletteSetColors(cs)
  \/ rowcolsCall

SpecLayout == Init /\ [][LayoutNext]_vars

\* the layout of the specification (GridGeometry.computeLayout), in exact
\* arithmetic
CeilDiv(a, b) == (a + b - 1) \div b
SpecColumns ==
  IF forced_columns > 0 THEN forced_columns
  ELSE IF columnsHint # 0 THEN columnsHint
  ELSE Min(Count(colors), width \div color_size)

\* C5: whenever count > 0, the layout rowcols() computes has columns >= 1,
\* rows >= 1 and columns * rows >= count, whatever forcedRows, forcedColumns,
\* the column hint, the container width and the nominal cell width are.
C5_LayoutCovers ==
  (last.op = "rowcols" /\ Count(colors) > 0) =>
    /\ last.res.w >= 1
    /\ last.res.h >= 1
    /\ last.res.w * last.res.h >= Count(colors)

\* C6: rowcols() returns the empty layout for count = 0; for forcedRows > 0
\* (ceil(count / forcedRows), forcedRows); otherwise columns = forcedColumns
\* if > 0, else the column hint if nonzero, else min(count, width / cellWidth),
\* and rows = ceil(count / columns) (where that quotient exists: columns # 0).
C6_LayoutFormula ==
  last.op = "rowcols" =>
    LET count == Count(colors)
    IN  /\ count = 0 => last.res = QSizeNull
        /\ (count > 0 /\ forced_rows > 0) =>
             last.res = [w |-> CeilDiv(count, forced_rows), h |-> forced_rows]
        /\ (count > 0 /\ forced_rows <= 0) =>
             /\ last.res.w = SpecColumns
             /\ SpecColumns # 0 => last.res.h = CeilDiv(count, SpecColumns)
        /\ (count = 10 /\ forced_columns = 3) => last.res = [w |-> 3, h |-> 4]
        /\ (count = 10 /\ forced_rows = 2) => last.res = [w |-> 5, h |-> 2]

\* C6 witness: rowcols() has computed the layout of count = 10 with
\* forcedColumns = 3 overriding a column hint of 2.
C6_Witness ==
  /\ last.op = "rowcols"
  /\ Count(colors) = 10
  /\ forced_columns = 3
  /\ columnsHint = 2
  /\ last.res = [w |-> 3, h |-> 4]

\* C7: after any sequence of setForcedColumns(n) and setForcedRows(m), at
\* most one of forcedColumns and forcedRows is greater than 0 and neither is
\* negative.
C7_ForcedExclusive ==
  /\ forced_columns >= 0
  /\ forced_rows >= 0
  /\ ~(forced_columns > 0 /\ forced_rows > 0)

\* C7 witness: setForcedRows(m), m > 0, has just replaced a forced column
\* count that was in force.
C7_Witness ==
  /\ last.op = "setForcedRows"
  /\ last.arg > 0
  /\ last.res[1] > 0
  /\ last.emits = << "forcedColumnsChanged", "forcedRowsChanged" >>
  /\ forced_rows = last.arg
  /\ forced_columns = 0


(***************************************************************************)
(* The hit test: for every geometry, the centre of a cell's rectangle is    *)
(* handed to indexAt.                                                      *)
(***************************************************************************)
\* margins given to setMargin
Margins == {0, 1, 3}
\* widths of the hit test: also containers of a few pixels
HitWidths == {0, 2, 8, 40}
HitPalettes == {[k \in 1..n |-> 1] : n \in 0..(MaxCount + 1)}
\* the forced constraints the two setters can leave: at most one is set
ForcedPairs ==
  {<< 0, 0 >>} \cup {<< n, 0 >> : n \in 1..MaxForced}
               \cup {<< 0, n >> : n \in 1..MaxForced}

\* indexRect(i) for an entry i of the palette, then indexAt at the centre of
\* that rectangle (only a rectangle with defined coordinates has a centre)
centerHit(i) ==
  /\ ~fault
  /\ InRange(i, colors)
  /\ \E ub \in UBChoices :
       \E r \in {indexRect(i, ub)} :
         /\ ~r.fault
         /\ r.rect.kind = "rect"
         /\ \E pt \in {CenterPoint(r.rect)} :
              \E hit \in {indexAt(pt, ub)} :
                Commit(Effects0, "centerHit", i,
                       [rc |-> rowcols(ub), rect |-> r.rect, pt |-> pt,
                        hit |-> hit])
  /\ UNCHANGED << columnsHint, forced_rows, forced_columns, readonly, emptyColor,
                  margin, color_size, width, height, dropVars >>

\* every geometry the setters, the palette and the host can produce
HitInit ==
  /\ colors \in HitPalettes
  /\ columnsHint \in 0..MaxHint
  /\ \E f \in ForcedPairs : forced_columns = f[1] /\ forced_rows = f[2]
  /\ width \in HitWidths
  /\ height \in Heights
  /\ margin \in Margins
  /\ selected = -1
  /\ readonly = FALSE
  /\ emptyColor = 0
  /\ color_size = DefaultColorSize
  /\ drop_index = -1
  /\ drop_overwrite = FALSE
  /\ drop_color = InvalidColor
  /\ event = << 0, 0 >>
  /\ fault = FALSE
  /\ hsl = HslNone
  /\ last = [op |-> "Swatch", arg |-> 0, res |-> 0, emits |-> << >>,
             calls |-> {}, fwd |-> 0]

HitNext == \E i \in 0..MaxCount : centerHit(i)

SpecHit == HitInit /\ [][HitNext]_vars

\* the layout is valid: at least one column and one row
ValidLayout(rc) == rc.w >= 1 /\ rc.h >= 1

\* C8 as stated: for every valid layout and every index i in [0, count),
\* indexAt at the centre point of cellRect(i) returns i, for every container
\* size, margin and column count.
C8_RoundTripAnySize ==
  (last.op = "centerHit" /\ ValidLayout(last.res.rc)) => last.res.hit = last.arg

\* C8 as amended: the same, for every container wider than the layout has
\* columns and taller than it has rows (every cell spans more than one pixel
\* in each direction).
C8_RoundTrip ==
  (/\ last.op = "centerHit"
   /\ ValidLayout(last.res.rc)
   /\ width > last.res.rc.w
   /\ height > last.res.rc.h) => last.res.hit = last.arg

\* C8 witness: the centre of a cell of the second row of a grid with a
\* margin, whose cells are not whole numbers of pixels wide, has been
\* hit-tested back to its index.
C8_Witness ==
  /\ last.op = "centerHit"
  /\ last.res.rc = [w |-> 3, h |-> 2]
  /\ last.arg = 3
  /\ width = 8
  /\ height = 40
  /\ margin = 1
  /\ last.res.hit = 3

(***************************************************************************)
(* Drop resolution.                                                        *)
(***************************************************************************)
\* pos >= lo + len * 3.0 / 4, for lo = lon / 2^e and len = lenn / 2^e
InLastQuarter(pos, lon, lenn, e) == 4 * pos * Pow2(e) >= 4 * lon + 3 * lenn
\* pos > lo + len / 4
PastFirstQuarter(pos, lon, lenn, e) == 4 * pos * Pow2(e) > 4 * lon + lenn

\* the test of Private::dropEvent for the "vertical style"
verticalStyle == columnsHint = 1 \/ forced_columns = 1

\* the overwrite test without its last operand
mayOverwriteAlways(idx, isMove, fromSelf) == TRUE

\* the last operand of the overwrite tests of Private::dropEvent
mayOverwrite(idx, isMove, fromSelf) ==
  ~isMove \/ ~fromSelf \/ PaletteColorAt(colors, idx) = emptyColor

\* the zones applied without the test drop_index < palette.count()
dropTargetAnyIndex(pt, idx, rect, isMove, fromSelf) ==
  IF QRectFIsValid(rect)
  THEN IF verticalStyle
       THEN IF InLastQuarter(pt[2], rect.yn, rect.hn, rect.ey)
            THEN [index |-> idx + 1, overwrite |-> FALSE, asked |-> FALSE,
                  style |-> "vertical"]
            ELSE IF PastFirstQuarter(pt[1], rect.yn, rect.hn, rect.ey)
            THEN [index |-> idx, overwrite |-> mayOverwrite(idx, isMove, fromSelf),
                  asked |-> isMove /\ fromSelf, style |-> "vertical"]
            ELSE [index |-> idx, overwrite |-> FALSE, asked |-> FALSE,
                  style |-> "vertical"]
       ELSE IF InLastQuarter(pt[1], rect.xn, rect.wn, rect.ex)
            THEN [index |-> idx + 1, overwrite |-> FALSE, asked |-> FALSE,
                  style |-> "horizontal"]
            ELSE IF PastFirstQuarter(pt[1], rect.xn, rect.wn, rect.ex)
            THEN [index |-> idx, overwrite |-> mayOverwrite(idx, isMove, fromSelf),
                  asked |-> isMove /\ fromSelf, style |-> "horizontal"]
            ELSE [index |-> idx, overwrite |-> FALSE, asked |-> FALSE,
                  style |-> "horizontal"]
  ELSE [index |-> idx, overwrite |-> FALSE, asked |-> FALSE, style |-> "none"]

\* the drop index and disposition Private::dropEvent computes for the pointer
\* pt over the candidate idx with rectangle rect; style: the subdivision
\* used; asked: whether palette.colorAt(idx) was called
dropTarget(pt, idx, rect, isMove, fromSelf) ==
  IF idx < Count(colors) /\ QRectFIsValid(rect)
  THEN IF verticalStyle
       THEN IF InLastQuarter(pt[2], rect.yn, rect.hn, rect.ey)
            THEN [index |-> idx + 1, overwrite |-> FALSE, asked |-> FALSE,
                  style |-> "vertical"]
            ELSE IF PastFirstQuarter(pt[1], rect.yn, rect.hn, rect.ey)
            THEN [index |-> idx, overwrite |-> mayOverwrite(idx, isMove, fromSelf),
                  asked |-> isMove /\ fromSelf, style |-> "vertical"]
            ELSE [index |-> idx, overwrite |-> FALSE, asked |-> FALSE,
                  style |-> "vertical"]
       ELSE IF InLastQuarter(pt[1], rect.xn, rect.wn, rect.ex)
            THEN [index |-> idx + 1, overwrite |-> FALSE, asked |-> FALSE,
                  style |-> "horizontal"]
            ELSE IF PastFirstQuarter(pt[1], rect.xn, rect.wn, rect.ex)
            THEN [index |-> idx, overwrite |-> mayOverwrite(idx, isMove, fromSelf),
                  asked |-> isMove /\ fromSelf, style |-> "horizontal"]
            ELSE [index |-> idx, overwrite |-> FALSE, asked |-> FALSE,
                  style |-> "horizontal"]
  ELSE [index |-> idx, overwrite |-> FALSE, asked |-> FALSE, style |-> "none"]

\* what a drag carries: a colour (as colour data, or as text that names one)
\* or nothing usable
Payloads == {[has |-> TRUE, color |-> 1], [has |-> FALSE, color |-> InvalidColor]}

\* Private::dropEvent(event) for the drag at the position event, delivered by
\* the host while the widget accepts drops (setReadOnly: setAcceptDrops)
dropEvent(payload, isMove, fromSelf) ==
  /\ ~fault
  /\ ~readonly
  /\ \E ub \in UBChoices :
       \E cand \in {indexAt(event, ub)} :
         \E idx \in {IF cand = -1 THEN Count(colors) ELSE cand} :
           \E r \in {indexRect(idx, ub)} :
             \E t \in {dropTarget(event, idx, r.rect, isMove, fromSelf)} :
               /\ drop_index' = IF r.fault THEN idx ELSE t.index
               /\ drop_overwrite' = IF r.fault THEN FALSE ELSE t.overwrite
               /\ drop_color' = IF payload.has THEN payload.color ELSE drop_color
               /\ Commit([(IF t.asked /\ ~r.fault
                           THEN Emit(Call(Effects0, "colorAt", idx), "update")
                           ELSE Emit(Effects0, "update"))
                          EXCEPT !.fault = r.fault],
                         "dropEvent",
                         [move |-> isMove, self |-> fromSelf],
                         [cand |-> cand, rect |-> r.rect, rc |-> rowcols(ub),
                          style |-> t.style])
  /\ UNCHANGED << columnsHint, forced_rows, forced_columns, readonly, emptyColor,
                  margin, color_size, width, height, event >>

\* Private::clearDrop()
clearDrop ==
  /\ ~fault
  /\ drop_index' = -1
  /\ drop_color' = InvalidColor
  /\ drop_overwrite' = FALSE
  /\ Commit(Emit(Effects0, "update"), "clearDrop", 0, 0)
  /\ UNCHANGED << columnsHint, forced_rows, forced_columns, readonly, emptyColor,
                  margin, color_size, width, height, event >>

\* pointer positions of the drags
DropXs == {2, 11, 35}
DropYs == {2, 11, 35}
\* width, height and margin of the widget: wide, one nominal cell wide,
\* narrower than a nominal cell, with a margin, and without height
DropFrames ==
  {<< 40, 40, 0 >>, << 24, 40, 0 >>, << 8, 40, 0 >>, << 40, 40, 3 >>,
   << 24, 40, 3 >>, << 40, 0, 0 >>}
\* palettes of the drop resolution: every entry holds colour 1, which is the
\* empty colour or not as emptyColor is set
DropPalettes == {[k \in 1..n |-> 1] : n \in 0..MaxCount}

\* every geometry the setters, the palette and the host can produce, and a
\* drag at some position
DropInit ==
  /\ colors \in DropPalettes
  /\ emptyColor \in PaletteColors
  /\ columnsHint \in 0..MaxHint
  /\ \E f \in ForcedPairs : forced_columns = f[1] /\ forced_rows = f[2]
  /\ \E f \in DropFrames : width = f[1] /\ height = f[2] /\ margin = f[3]
  /\ event \in DropXs \X DropYs
  /\ selected = -1
  /\ readonly = FALSE
  /\ color_size = DefaultColorSize
  /\ drop_index = -1
  /\ drop_overwrite = FALSE
  /\ drop_color = InvalidColor
  /\ fault = FALSE
  /\ hsl = HslNone
  /\ last = [op |-> "Swatch", arg |-> 0, res |-> 0, emits |-> << >>,
             calls |-> {}, fwd |-> 0]

DropNext ==
  \/ \E payload \in Payloads, isMove \in BOOLEAN, fromSelf \in BOOLEAN :
       dropEvent(payload, isMove, fromSelf)
  \/ clearDrop

SpecDrop == DropInit /\ [][DropNext]_vars

\* the drop resolution has run to its end over a candidate entry
Resolved == last.op = "dropEvent" /\ ~fault
OverCandidate == Resolved /\ last.res.cand # -1
CandidateIsEmpty == PaletteColorAt(colors, last.res.cand) = emptyColor
SameWidgetMove == last.arg.move /\ last.arg.self

\* C4: for every pointer position and every layout, when the drag is a move
\* that originated from this same swatch and the candidate cell holds a
\* colour different from the configured empty colour, drop resolution never
\* yields the overwrite disposition.
C4_NoOverwriteOnOwnMove ==
  (OverCandidate /\ SameWidgetMove /\ ~CandidateIsEmpty) => ~drop_overwrite

\* C4 witness: a same-widget move was resolved with the pointer in the middle
\* of a valid cell holding a colour, and became an insertion before the cell;
\* the palette was asked for the colour of the cell.
C4_Witness ==
  /\ OverCandidate
  /\ SameWidgetMove
  /\ ~CandidateIsEmpty
  /\ QRectFIsValid(last.res.rect)
  /\ ~verticalStyle
  /\ PastFirstQuarter(event[1], last.res.rect.xn, last.res.rect.wn, last.res.rect.ex)
  /\ ~InLastQuarter(event[1], last.res.rect.xn, last.res.rect.wn, last.res.rect.ex)
  /\ last.calls = {<< "colorAt", last.res.cand, Count(colors) >>}
  /\ drop_index = last.res.cand
  /\ ~drop_overwrite

\* the pointer's place along the width of the candidate's rectangle
XInLastQuarter ==
  InLastQuarter(event[1], last.res.rect.xn, last.res.rect.wn, last.res.rect.ex)
XPastFirstQuarter ==
  PastFirstQuarter(event[1], last.res.rect.xn, last.res.rect.wn, last.res.rect.ex)
\* the drop was resolved over a candidate with a rectangle of positive size
OverValidCell == OverCandidate /\ QRectFIsValid(last.res.rect)

\* C9: in a multi-column layout, with the pointer over candidate cell i: if
\* the pointer x is in the last quarter of the cell's width, the result is
\* insert-after with target i + 1; else if x is past the first quarter and
\* (the drag is not a same-widget move, or cell i holds the empty colour), the
\* result is overwrite with target i; otherwise it is insert-before with
\* target i.  (Stated for cells whose rectangle has a positive size.)
C9_MultiColumnZones ==
  (OverValidCell /\ last.res.rc.w > 1) =>
    IF XInLastQuarter
    THEN drop_index = last.res.cand + 1 /\ ~drop_overwrite
    ELSE IF XPastFirstQuarter /\ (~SameWidgetMove \/ CandidateIsEmpty)
    THEN drop_index = last.res.cand /\ drop_overwrite
    ELSE drop_index = last.res.cand /\ ~drop_overwrite

\* C10: drop resolution uses the vertical subdivision exactly when the
\* layout rowcols() computes has one column, and the horizontal subdivision
\* exactly when it has more than one.
C10_StyleFollowsLayout ==
  OverValidCell =>
    /\ (last.res.style = "vertical") <=> (last.res.rc.w = 1)
    /\ (last.res.style = "horizontal") <=> (last.res.rc.w > 1)

(***************************************************************************)
(* The selection and keyboard machine.                                     *)
(***************************************************************************)
\* a % b of int where b may be 0: a build that does not trap computes
\* a - (a / 0) * 0 with a / 0 = 0
ModUB(a, b) == IF b = 0 THEN a ELSE ModC(a, b)

\* removeSelected without the test of readonly
removeSelectedAlways(E, ro) ==
  IF E.selected # -1
  THEN LET sel == E.selected
           E1 == eraseColor(Call(E, "eraseColor", sel), sel)
       IN  setSelected(E1, Min(sel, Count(E1.colors) - 1))
  ELSE E

\* removeSelected that leaves the selection to the listener of colorRemoved
removeSelectedNoSelect(E, ro) ==
  IF E.selected # -1 /\ ~ro
  THEN eraseColor(Call(E, "eraseColor", E.selected), E.selected)
  ELSE E

\* Swatch::removeSelected(), ro: p->readonly
removeSelected(E, ro) ==
  IF E.selected # -1 /\ ~ro
  THEN LET sel == E.selected
           E1 == eraseColor(Call(E, "eraseColor", sel), sel)
       IN  setSelected(E1, Min(sel, Count(E1.colors) - 1))
  ELSE E

Keys ==
  {"Left", "Right", "Up", "Down", "Home", "End", "Delete", "Backspace",
   "PageUp", "PageDown", "Other"}
NavigationKeys == {"Left", "Right", "Up", "Down", "Home", "End", "PageUp", "PageDown"}
\* key presses: the Control modifier is read for Home and End only
KeyEvents ==
  {<< k, FALSE >> : k \in Keys} \cup {<< "Home", TRUE >>, << "End", TRUE >>}

\* the keys whose case computes selected % columns
DividesByColumns(key, ctrl, sel) ==
  \/ key \in {"Home", "End"} /\ ~ctrl
  \/ key \in {"PageUp", "PageDown"} /\ sel # -1

\* the arrow keys that stop at neither end of the palette
arrowTargetUnclamped(key, sel, count, columns) ==
  CASE key = "Left" -> IF sel = -1 THEN count - 1 ELSE sel - 1
    [] key = "Right" -> IF sel = -1 THEN 0 ELSE sel + 1
    [] key = "Up" -> IF sel = -1 THEN count - 1 ELSE sel - columns
    [] key = "Down" -> IF sel = -1 THEN 0 ELSE sel + columns

\* the cases Key_Left, Key_Right, Key_Up, Key_Down of Swatch::keyPressEvent:
\* the value left in the local selected
arrowTarget(key, sel, count, columns) ==
  CASE key = "Left" ->
         IF sel = -1 THEN count - 1 ELSE IF sel > 0 THEN sel - 1 ELSE sel
    [] key = "Right" ->
         IF sel = -1 THEN 0 ELSE IF sel < count - 1 THEN sel + 1 ELSE sel
    [] key = "Up" ->
         IF sel = -1 THEN count - 1
         ELSE IF sel >= columns THEN sel - columns ELSE sel
    [] key = "Down" ->
         IF sel = -1 THEN 0
         ELSE IF sel < count - columns THEN sel + columns ELSE sel

\* the cases Key_Home, Key_End of Swatch::keyPressEvent (columns = 0: the
\* outcome of a build that does not trap)
homeEndTarget(key, ctrl, sel, count, columns) ==
  IF key = "Home"
  THEN IF ctrl THEN 0 ELSE sel - ModUB(sel, columns)
  ELSE IF ctrl THEN count - 1 ELSE sel + columns - ModUB(sel, columns) - 1

\* the cases Key_PageUp, Key_PageDown of Swatch::keyPressEvent
pageTarget(key, sel, count, columns, rows) ==
  IF key = "PageUp"
  THEN IF sel = -1 THEN 0 ELSE ModUB(sel, columns)
  ELSE IF sel = -1 THEN count - 1
       ELSE IF columns = 0 THEN sel
       ELSE LET s == columns * (rows - 1) + ModC(sel, columns)
            IN  IF s >= count THEN s - columns ELSE s

\* the index the switch of Swatch::keyPressEvent leaves in selected for a
\* navigation key
keyTarget(key, ctrl, sel, count, columns, rows) ==
  IF key \in {"Left", "Right", "Up", "Down"}
  THEN arrowTarget(key, sel, count, columns)
  ELSE IF key \in {"Home", "End"}
  THEN homeEndTarget(key, ctrl, sel, count, columns)
  ELSE pageTarget(key, sel, count, columns, rows)

\* Backspace that keeps the index of the removed entry selected
backspaceTargetSame(sel, count) == IF count = 0 THEN -1 ELSE sel

\* the case Key_Backspace of Swatch::keyPressEvent after eraseColor: the
\* value left in the local selected, count the new count
backspaceTarget(sel, count) == IF count = 0 THEN -1 ELSE Max(sel - 1, 0)

\* Swatch::keyPressEvent(event): ro is p->readonly, rc the result of rowcols()
keyPressEvent(E, key, ctrl, ro, rc, ub) ==
  LET count == Count(E.colors)
      sel == E.selected
      F == [E EXCEPT !.fwd = IF count = 0 THEN 1 ELSE 0]
  IN  CASE key = "Other" -> [F EXCEPT !.fwd = @ + 1]
        [] key = "Delete" -> removeSelected(F, ro)
        [] key = "Backspace" ->
             IF sel # -1 /\ ~ro
             THEN LET E1 == eraseColor(Call(F, "eraseColor", sel), sel)
                  IN  setSelected(E1, backspaceTarget(sel, Count(E1.colors)))
             ELSE setSelected(F, sel)
        [] OTHER ->
             IF rc.w = 0 /\ ub.trap /\ DividesByColumns(key, ctrl, sel)
             THEN [F EXCEPT !.fault = TRUE]
             ELSE setSelected(F, keyTarget(key, ctrl, sel, count, rc.w, rc.h))

\* the history of a handler of the selection machine: the state it found
Before(rc) == [selected |-> selected, colors |-> colors, rc |-> rc]

\* everything the selection machine leaves alone
selFrame ==
  << forced_rows, forced_columns, emptyColor, margin, color_size, width, height,
     dropVars >>

\* a key press delivered to the widget
keyPress(key, ctrl) ==
  /\ ~fault
  /\ \E ub \in UBChoices :
       \E rc \in {rowcols(ub)} :
         \E E \in {keyPressEvent(Effects0, key, ctrl, readonly, rc, ub)} :
           Commit(E, "keyPressEvent", << key, ctrl >>, Before(rc))
  /\ UNCHANGED << columnsHint, readonly, selFrame >>

\* a call of the slot removeSelected()
removeSelectedCall ==
  /\ ~fault
  /\ \E E \in {removeSelected(Effects0, readonly)} :
       Commit(E, "removeSelected", 0, Before(QSizeNull))
  /\ UNCHANGED << columnsHint, readonly, selFrame >>

\* a call of the slot setSelected(i): Select(i)
select(i) ==
  /\ ~fault
  /\ \E E \in {setSelected(Effects0, i)} :
       Commit(E, "setSelected", i, Before(QSizeNull))
  /\ UNCHANGED << columnsHint, readonly, selFrame >>

\* Swatch::setReadOnly(readOnly)
setReadOnly(b) ==
  /\ ~fault
  /\ b # readonly
  /\ readonly' = b
  /\ Commit(Emit(Effects0, "readOnlyChanged"), "setReadOnly", b, 0)
  /\ UNCHANGED << columnsHint, selFrame >>

\* Swatch::setPalette(palette) with a palette of the same column hint: the
\* assignment notifies colorsChanged
setPalette(cs) ==
  /\ ~fault
  /\ \E E \in {Emit(Emit(paletteModified([clearSelection(Effects0)
                                           EXCEPT !.colors = cs]),
                         "update"), "paletteChanged")} :
       Commit(E, "setPalette", cs, 0)
  /\ UNCHANGED << columnsHint, readonly, selFrame >>

\* palette.eraseColor(i) by a holder of the palette
PaletteEraseColor(i) ==
  /\ ~fault
  /\ InRange(i, colors)
  /\ \E E \in {eraseColor(Effects0, i)} :
       Commit(E, "eraseColor", i, 0)
  /\ UNCHANGED << columnsHint, readonly, selFrame >>

\* palette.setColorAt(i, c) by a holder of the palette: notifies
\* colorChanged(i), then colorsUpdated (connected to update())
PaletteSetColorAt(i, c) ==
  /\ ~fault
  /\ InRange(i, colors)
  /\ \E E \in {Emit(onColorChanged([Effects0 EXCEPT !.colors[i + 1] = c], i),
                    "update")} :
       Commit(E, "setColorAt", << i, c >>, 0)
  /\ UNCHANGED << columnsHint, readonly, selFrame >>

\* palette.setColors(cs) by a holder of the palette, in the selection machine
PaletteReplaceColors(cs) ==
  /\ ~fault
  /\ cs # colors
  /\ \E E \in {setColors(Effects0, cs)} :
       Commit(E, "setColors", cs, 0)
  /\ UNCHANGED << columnsHint, readonly, selFrame >>

\* Swatch::selectedColor()
selectedColor ==
  /\ ~fault
  /\ Commit(Call(Effects0, "colorAt", selected), "selectedColor", 0,
            PaletteColorAt(colors, selected))
  /\ UNCHANGED << columnsHint, readonly, selFrame >>

\* Swatch::colorAt(pt)
colorAt(pt) ==
  /\ ~fault
  /\ \E ub \in UBChoices :
       \E index \in {indexAt(pt, ub)} :
         Commit(Call(Effects0, "colorAt", index), "colorAt", pt,
                PaletteColorAt(colors, index))
  /\ UNCHANGED << columnsHint, readonly, selFrame >>

\* Swatch::mousePressEvent(event) at pt with the left or the right button
mousePressEvent(pt, button) ==
  /\ ~fault
  /\ \E ub \in UBChoices :
       \E index \in {indexAt(pt, ub)} :
         \E E \in {IF button = "Left" THEN setSelected(Effects0, index)
                   ELSE IF index # -1 THEN Emit(Effects0, "rightClicked")
                   ELSE Effects0} :
           Commit(E, "mousePressEvent", << pt, button >>, Before(rowcols(ub)))
  /\ UNCHANGED << columnsHint, readonly, selFrame >>

\* Swatch::event(event) for a QEvent::ToolTip at pt
toolTipEvent(pt) ==
  /\ ~fault
  /\ \E ub \in UBChoices :
       \E index \in {indexAt(pt, ub)} :
         \E E \in {IF index # -1
                   THEN Call(Call(Effects0, "colorAt", index), "nameAt", index)
                   ELSE Effects0} :
           Commit(E, "event", pt, index)
  /\ UNCHANGED << columnsHint, readonly, selFrame >>

\* palettes given to setColors and setPalette: the prefixes of 1, 0, 1, ...
\* (a shorter one is a truncation)
SelPalettes == {[k \in 1..n |-> k % 2] : n \in 0..MaxCount}
\* pointer positions of mouse presses and queries
SelPoints == {<< 2, 2 >>, << 35, 2 >>, << 35, 35 >>}
\* column hint, forced columns, forced rows and width of the widget: auto
\* columns in a wide and in a narrow widget, a column hint, forced columns,
\* forced rows
SelLayouts ==
  {<< 0, 0, 0, 40 >>, << 0, 0, 0, 8 >>}
    \cup {<< n, 0, 0, 40 >> : n \in 1..MaxHint}
    \cup {<< 0, n, 0, 40 >> : n \in 1..MaxForced}
    \cup {<< 0, 0, n, 40 >> : n \in 1..MaxForced}

\* the state after Swatch::Swatch and the set-up of the layout
SelInit ==
  /\ colors = << >>
  /\ \E g \in SelLayouts :
       /\ columnsHint = g[1]
       /\ forced_columns = g[2]
       /\ forced_rows = g[3]
       /\ width = g[4]
  /\ selected = -1
  /\ readonly = FALSE
  /\ emptyColor = 0
  /\ margin = 0
  /\ color_size = DefaultColorSize
  /\ height = 40
  /\ drop_index = -1
  /\ drop_overwrite = FALSE
  /\ drop_color = InvalidColor
  /\ event = << 0, 0 >>
  /\ fault = FALSE
  /\ hsl = HslNone
  /\ last = [op |-> "Swatch", arg |-> 0, res |-> 0, emits |-> << >>,
             calls |-> {}, fwd |-> 0]

Next ==
  \/ \E k \in KeyEvents : keyPress(k[1], k[2])
  \/ removeSelectedCall
  \/ \E i \in -1..MaxCount : select(i)
  \/ \E b \in BOOLEAN : setReadOnly(b)
  \/ \E cs \in SelPalettes : setPalette(cs)
  \/ \E i \in 0..(MaxCount - 1) : PaletteEraseColor(i)
  \/ \E i \in 0..(MaxCount - 1), c \in PaletteColors : PaletteSetColorAt(i, c)
  \/ \E cs \in SelPalettes : PaletteReplaceColors(cs)
  \/ selectedColor
  \/ \E pt \in SelPoints : colorAt(pt)
  \/ \E pt \in SelPoints, b \in {"Left", "Right"} : mousePressEvent(pt, b)
  \/ \E pt \in SelPoints : toolTipEvent(pt)

Spec == SelInit /\ [][Next]_vars

\* C1: in every reachable state the selected index is -1 or lies in
\* [0, count).
C1_SelectionInRange == selected = -1 \/ InRange(selected, colors)

\* C2: no operation of the swatch passes an index outside [0, count) to the
\* palette (colorAt, nameAt, eraseColor).
C2_NoOutOfRangeCall ==
  \A c \in last.calls : 0 <= c[2] /\ c[2] < c[3]

\* C3: while read-only mode is on, no key press and no removeSelected call
\* changes the palette, and a navigation key moves the selection exactly as
\* the handler does with read-only off.
C3_ReadOnlyStep ==
  (readonly /\ last'.op \in {"keyPressEvent", "removeSelected"}) =>
    /\ colors' = colors
    /\ columnsHint' = columnsHint
    /\ (last'.op = "keyPressEvent" /\ last'.arg[1] \in NavigationKeys) =>
         \E ub \in UBChoices :
           LET E == keyPressEvent(Effects0, last'.arg[1], last'.arg[2], FALSE,
                                  rowcols(ub), ub)
           IN  selected' = E.selected /\ fault' = E.fault
C3_ReadOnly == [][C3_ReadOnlyStep]_vars

\* C3 witness: Delete was pressed in read-only mode with an entry selected,
\* and palette and selection are as they were.
C3_Witness ==
  /\ readonly
  /\ last.op = "keyPressEvent"
  /\ last.arg[1] = "Delete"
  /\ last.res.selected # -1
  /\ InRange(last.res.selected, last.res.colors)
  /\ colors = last.res.colors
  /\ selected = last.res.selected

(***************************************************************************)
(* Key presses: what the last one found and what it left.                  *)
(***************************************************************************)
KeyPressed(key) ==
  last.op = "keyPressEvent" /\ last.arg[1] = key /\ ~last.arg[2] /\ ~fault
\* the key press found a selected entry / no selection
FoundEntry == InRange(last.res.selected, last.res.colors)
FoundNone == last.res.selected = -1
PaletteKept == colors = last.res.colors
RemovedFoundEntry == colors = Erased(last.res.colors, last.res.selected)

\* C11 as stated: Delete with entry i selected and read-only off removes
\* exactly entry i and leaves the selection none.
C11_DeleteClears ==
  (KeyPressed("Delete") /\ FoundEntry /\ ~readonly) =>
    (RemovedFoundEntry /\ selected = -1)

\* C11 amended: Delete with entry i selected and read-only off removes
\* exactly entry i, and removeSelected then selects min(i, count - 1) of the
\* new count: the entry that moved to index i, else the new last entry, and
\* none only when the palette became empty.
C11_DeleteReselects ==
  (KeyPressed("Delete") /\ FoundEntry /\ ~readonly) =>
    /\ RemovedFoundEntry
    /\ Count(colors) = Count(last.res.colors) - 1
    /\ selected = Min(last.res.selected, Count(colors) - 1)
    /\ last.calls \subseteq
         {<< "eraseColor", last.res.selected, Count(last.res.colors) >>,
          << "colorAt", selected, Count(colors) >>}

\* C11 witness: Delete removed a selected entry that was not the last one,
\* and the entry that took its index is selected.
C11_Witness ==
  /\ KeyPressed("Delete")
  /\ FoundEntry
  /\ ~readonly
  /\ RemovedFoundEntry
  /\ last.res.selected < Count(colors)
  /\ selected = last.res.selected

\* C12: Backspace with entry i selected and read-only off removes exactly
\* entry i and leaves max(i - 1, 0) selected, or none when the palette became
\* empty; with no selection it changes neither palette nor selection.
C12_Backspace ==
  /\ (KeyPressed("Backspace") /\ FoundEntry /\ ~readonly) =>
       /\ RemovedFoundEntry
       /\ selected = IF Count(colors) = 0 THEN -1
                     ELSE Max(last.res.selected - 1, 0)
  /\ (KeyPressed("Backspace") /\ FoundNone) =>
       (PaletteKept /\ selected = -1)

\* C12 witness: Backspace removed the selected entry i > 0 of a palette and
\* entry i - 1 is selected.
C12_Witness ==
  /\ KeyPressed("Backspace")
  /\ FoundEntry
  /\ ~readonly
  /\ last.res.selected > 0
  /\ RemovedFoundEntry
  /\ selected = last.res.selected - 1

\* C13: with count > 0, from no selection Left and Up select count - 1 and
\* Right and Down select 0; from a valid selection i, Left/Right move to
\* i - 1 / i + 1 and Up/Down to i - columns / i + columns when that index is
\* in [0, count), and leave i otherwise; the palette is not changed.
C13_Arrows ==
  \A key \in {"Left", "Right", "Up", "Down"} :
    (KeyPressed(key) /\ Count(last.res.colors) > 0) =>
      LET i == last.res.selected
          count == Count(last.res.colors)
          step == IF key \in {"Left", "Right"} THEN 1 ELSE last.res.rc.w
          to == IF key \in {"Left", "Up"} THEN i - step ELSE i + step
      IN  /\ PaletteKept
          /\ FoundNone =>
               selected = IF key \in {"Left", "Up"} THEN count - 1 ELSE 0
          /\ FoundEntry =>
               selected = IF 0 <= to /\ to < count THEN to ELSE i

\* C13 witness: Right was pressed on the last entry of a palette of several
\* entries and the selection stayed there.
C13_Witness ==
  /\ KeyPressed("Right")
  /\ Count(colors) > 1
  /\ last.res.selected = Count(colors) - 1
  /\ selected = last.res.selected
  /\ PaletteKept

\* a press of key, with or without the Control modifier, trapped or not
KeyDelivered(key) == last.op = "keyPressEvent" /\ last.arg[1] = key

\* C14: from a valid selection i, Home without the modifier selects the start
\* of i's row and End without it the end of i's row; with the modifier Home
\* selects 0 and End count - 1; in every case the result is a valid index
\* and, without the modifier, lies in the row of i.
C14_HomeEnd ==
  \A key \in {"Home", "End"} :
    (KeyDelivered(key) /\ FoundEntry) =>
      LET i == last.res.selected
          count == Count(last.res.colors)
          columns == last.res.rc.w
      IN  /\ ~fault
          /\ InRange(selected, colors)
          /\ last.arg[2] => selected = IF key = "Home" THEN 0 ELSE count - 1
          /\ ~last.arg[2] =>
               /\ columns > 0
               /\ selected \div columns = i \div columns
               /\ selected = IF key = "Home" THEN i - (i % columns)
                             ELSE Min(i - (i % columns) + columns - 1, count - 1)

\* C15: from a valid selection i, PageUp selects the entry of the column of
\* i in the first row and PageDown the last entry of that column; in every
\* layout the result is in [0, count) and has the column of i.
C15_Page ==
  \A key \in {"PageUp", "PageDown"} :
    (KeyDelivered(key) /\ FoundEntry) =>
      LET i == last.res.selected
          count == Count(last.res.colors)
          columns == last.res.rc.w
      IN  /\ ~fault
          /\ InRange(selected, colors)
          /\ columns > 0
          /\ selected % columns = i % columns
          /\ key = "PageUp" => selected = i % columns
          /\ key = "PageDown" => selected + columns >= count

\* C20: a key press is forwarded to QWidget::keyPressEvent exactly once when
\* the key is not one the swatch handles, leaving selection and palette as
\* they were, and never when the swatch handles the key; for every palette
\* size.
C20_ForwardOnce ==
  last.op = "keyPressEvent" =>
    IF last.arg[1] = "Other"
    THEN last.fwd = 1 /\ PaletteKept /\ selected = last.res.selected
    ELSE last.fwd = 0

\* the number of times the last handler emitted the signal (or requested the
\* repaint) sig
Emitted(sig) == Cardinality({k \in DOMAIN last.emits : last.emits[k] = sig})
SelectCalled == last.op = "setSelected"
SelectionChanged == selected # last.res.selected
SelectNormalises ==
  /\ PaletteKept
  /\ selected = IF InRange(last.arg, colors) THEN last.arg ELSE -1
  /\ Emitted("selectedChanged") = IF SelectionChanged THEN 1 ELSE 0
  /\ Emitted("colorSelected") = IF SelectionChanged /\ selected # -1 THEN 1 ELSE 0

\* C18 as stated: Select(index) stores index when it is in [0, count) and
\* none otherwise, emits selection-changed exactly when the stored value
\* changes, color-selected exactly when it changes to an entry, and requests
\* a repaint on every call.
C18_SelectAlwaysRepaints ==
  SelectCalled => (SelectNormalises /\ Emitted("update") = 1)

\* C18 amended: as stated, but the repaint is requested exactly when the
\* stored value changes.
C18_Select ==
  SelectCalled =>
    (SelectNormalises /\ Emitted("update") = IF SelectionChanged THEN 1 ELSE 0)

\* C18 witness: Select(i) was called with the entry i that was selected
\* already, and nothing was emitted and no repaint requested.
C18_Witness ==
  /\ SelectCalled
  /\ InRange(last.arg, colors)
  /\ last.res.selected = last.arg
  /\ selected = last.arg
  /\ last.emits = << >>

YInLastQuarter ==
  InLastQuarter(event[2], last.res.rect.yn, last.res.rect.hn, last.res.rect.ey)
YPastFirstQuarter ==
  PastFirstQuarter(event[2], last.res.rect.yn, last.res.rect.hn, last.res.rect.ey)

\* C16: in a single-column layout, with the pointer over candidate cell i:
\* pointer y in the last quarter of the cell's height gives insert-after
\* (target i + 1); else y past the first quarter of the height, together with
\* (not a same-widget move, or cell i holds the empty colour), gives
\* overwrite; otherwise insert-before.  The pointer x has no influence.
\* (Stated for cells whose rectangle has a positive size.)
C16_SingleColumnZones ==
  (OverValidCell /\ last.res.rc.w = 1) =>
    IF YInLastQuarter
    THEN drop_index = last.res.cand + 1 /\ ~drop_overwrite
    ELSE IF YPastFirstQuarter /\ (~SameWidgetMove \/ CandidateIsEmpty)
    THEN drop_index = last.res.cand /\ drop_overwrite
    ELSE drop_index = last.res.cand /\ ~drop_overwrite

C19_DegenerateIsEmpty ==
  (last.op = "dropEvent" /\ (Count(colors) = 0 \/ width = 0 \/ height = 0)) =>
    /\ ~fault
    /\ QSizeIsEmpty(last.res.rc)
    /\ last.res.cand = -1
    /\ QRectFIsEmpty(last.res.rect)

(***************************************************************************)
(* Colour conversion: color_from_hsl.  Hue, saturation and lightness are   *)
(* the numerators h, s, l over HslSteps; a QColor keeps each channel as a  *)
(* 16-bit integer, qRound(v * USHRT_MAX), and redF() is that integer over  *)
(* USHRT_MAX.  The arithmetic is exact; where the exact product lies half  *)
(* way between two channel values, the rounding of the floating-point      *)
(* product decides, and up names the side it falls on.                     *)
(***************************************************************************)
UShrtMax == 65535

\* a / b rounded to the nearest integer, for a >= 0 and b > 0
RoundDiv(a, b, up) ==
  LET q == (2 * a) \div (2 * b)
      r == (2 * a) % (2 * b)
  IN  IF r > b \/ (r = b /\ up) THEN q + 1 ELSE q

\* the channel QColor::fromRgbF stores for the value n / den in [0, 1]
ChannelOf(n, den, up) == RoundDiv(n * UShrtMax, den, up)

\* a chroma that does not depend on the saturation
hslChromaIgnoresSat(s, l) == (HslSteps - Abs(2 * l - HslSteps)) * HslSteps

\* chroma = (1 - qAbs(2 * lig - 1)) * sat, over HslSteps^2
hslChroma(s, l) == (HslSteps - Abs(2 * l - HslSteps)) * s

\* color_from_hsl(hue, sat, lig, alpha): the channels (red, green, blue) of
\* the colour returned
color_from_hsl(h, s, l, up) ==
  LET D == HslSteps
      chroma == hslChroma(s, l)
      \* h1 = hue * 6 over D, and 1 - qAbs(std::fmod(h1, 2) - 1) over D
      h1 == 6 * h
      t == D - Abs((h1 % (2 * D)) - D)
      \* x over D^3
      x == chroma * t
      C == ChannelOf(chroma, D * D, up)
      X == ChannelOf(x, D * D * D, up)
      \* QColor col: left invalid, whose channels read 0, when no test holds
      col == IF h1 < D THEN << C, X, 0 >>
             ELSE IF h1 < 2 * D THEN << X, C, 0 >>
             ELSE IF h1 < 3 * D THEN << 0, C, X >>
             ELSE IF h1 < 4 * D THEN << 0, X, C >>
             ELSE IF h1 < 5 * D THEN << X, 0, C >>
             ELSE IF h1 < 6 * D THEN << C, 0, X >>
             ELSE << 0, 0, 0 >>
      \* m = lig - chroma / 2 over 2 D^2
      m == 2 * D * l - chroma
      \* the channel of qBound(0.0, channel / USHRT_MAX + m, 1.0)
      out(k) == RoundDiv(qBound(0, k * 2 * D * D + m * UShrtMax,
                                UShrtMax * 2 * D * D),
                         2 * D * D, up)
  IN  << out(col[1]), out(col[2]), out(col[3]) >>

\* a call of color_from_hsl with the arguments hsl
colorFromHsl ==
  /\ last' = [op |-> "color_from_hsl", arg |-> hsl,
              res |-> color_from_hsl(hsl.h, hsl.s, hsl.l, hsl.up),
              emits |-> << >>, calls |-> {}, fwd |-> 0]
  /\ UNCHANGED << colors, columnsHint, selected, forced_rows, forced_columns,
                  readonly, emptyColor, margin, color_size, width, height,
                  dropVars, fault, hsl >>

\* the arguments: hue in [0, 1], saturation and lightness in [0, 1], in
\* steps of 1 / HslSteps
HslInit ==
  /\ hsl \in [h : 0..HslSteps, s : 0..HslSteps, l : 0..HslSteps, up : BOOLEAN]
  /\ colors = << >>
  /\ columnsHint = 0
  /\ selected = -1
  /\ forced_rows = 0
  /\ forced_columns = 0
  /\ readonly = FALSE
  /\ emptyColor = 0
  /\ margin = 0
  /\ color_size = DefaultColorSize
  /\ width = 40
  /\ height = 40
  /\ drop_index = -1
  /\ drop_overwrite = FALSE
  /\ drop_color = InvalidColor
  /\ event = << 0, 0 >>
  /\ fault = FALSE
  /\ last = [op |-> "Swatch", arg |-> 0, res |-> 0, emits |-> << >>,
             calls |-> {}, fwd |-> 0]

HslNext == colorFromHsl

SpecHsl == HslInit /\ [][HslNext]_vars

\* color_from_hsl was called with a hue in [0, 1)
HslCalled == last.op = "color_from_hsl" /\ last.arg.h < HslSteps

\* C21: for every hue in [0, 1) and saturation, lightness in [0, 1] every
\* channel of the colour color_from_hsl returns lies in [0, 1], and with
\* saturation 0 the colour is achromatic with R = G = B = lightness (the
\* channel value of the colour nearest to the lightness).
C21_FromHsl ==
  HslCalled =>
    /\ \A k \in 1..3 : 0 <= last.res[k] /\ last.res[k] <= UShrtMax
    /\ last.arg.s = 0 =>
         /\ last.res[1] = last.res[2]
         /\ last.res[2] = last.res[3]
         /\ 2 * Abs(last.res[1] * HslSteps - last.arg.l * UShrtMax) <= HslSteps

\* C21 witness: color_from_hsl was called with saturation 0, a hue inside
\* (0, 1) and a lightness inside (0, 1), and returned a grey.
C21_Witness ==
  /\ HslCalled
  /\ last.arg.s = 0
  /\ last.arg.h > 0
  /\ 0 < last.arg.l /\ last.arg.l < HslSteps
  /\ 0 < last.res[1] /\ last.res[1] < UShrtMax
  /\ last.res = << last.res[1], last.res[1], last.res[1] >>

=============================================================================
